---- MODULE Spec2Model ----
(***************************************************************************)
(* secretsrc: the paginated secret grid (pkg/ui/components/grid.go) and    *)
(* the Bubble Tea application model that drives it (pkg/ui/app.go).        *)
(*                                                                         *)
(* The application is an Elm-style state machine: Update(model, msg)       *)
(* returns the next model and a command; the runtime runs each command     *)
(* concurrently and delivers its completion message back to Update, in any *)
(* order.  The model value is the variable m, the commands that have not   *)
(* yet delivered their message are the bag inflight.                       *)
(***************************************************************************)
EXTENDS Integers, Sequences, FiniteSets, Bags, TLC

VARIABLES
    m,          \* the ui.Model value held by the Bubble Tea program
    inflight,   \* bag of dispatched commands whose message is not yet delivered
    status,     \* "running", "quit" (tea.Quit) or "panicked" (Go runtime panic)
    issued      \* history: the tokens the Source's list call was dispatched with
                \* since the last Refresh

vars == <<m, inflight, status, issued>>

(***************************************************************************)
(* Bounds of the model.                                                    *)
(***************************************************************************)
MaxInFlight == 2     \* commands outstanding at once
MaxPage     == 2     \* largest currentPage the model lets 'n' reach
MaxQueryLen == 1     \* longest filter query typed
MaxTermWidth  == 125  \* widest terminal a resize reports
MaxTermHeight == 31   \* tallest terminal a resize reports

(***************************************************************************)
(* Program constants (grid.go).                                            *)
(***************************************************************************)
MinCellWidth      == 35
MaxCellWidth      == 60
DefaultCellHeight == 4
CellSpacing       == 2

(***************************************************************************)
(* Go helpers.                                                             *)
(***************************************************************************)
\* a max that returns its second argument
max_Second(a, b) == b

max(a, b) == IF a > b THEN a ELSE b

min(a, b) == IF a < b THEN a ELSE b

\* Go integer division truncates toward zero (b > 0 here).
GoDiv(a, b) == IF a >= 0 THEN a \div b ELSE -((-a) \div b)

\* strings.ToLower on one character.  Strings are sequences of characters.
LowerChar(c) ==
    CASE c = "A" -> "a"
      [] c = "B" -> "b"
      [] c = "C" -> "c"
      [] OTHER   -> c

\* a ToLower that leaves the case as it is
ToLower_Identity(s) == s

ToLower(s) == [i \in 1..Len(s) |-> LowerChar(s[i])]

\* strings.Contains(s, sub)
Contains(s, sub) ==
    \E i \in 0..(Len(s) - Len(sub)) :
        \A j \in 1..Len(sub) : s[i + j] = sub[j]

(***************************************************************************)
(* The external Source: AWS Secrets Manager behind aws.Client.ListSecrets. *)
(* A secret is modelled by its Name.  A page of the listing is reached by  *)
(* the continuation token of the page before it; NoToken is Go's nil.      *)
(***************************************************************************)
NoToken == "nil"

\* a nil *aws.Client
NilClient == [profile |-> "", region |-> ""]

\* aws.GetAvailableProfiles: the profiles of the user's configuration
Profiles == <<"default", "dev", "prod", "sandbox">>

\* aws.GetCommonRegions (the first two)
Regions == <<"us-east-1", "us-east-2">>

\* the client aws.NewClient builds for a profile and a region
ClientOf(profile, region) == [profile |-> profile, region |-> region]

\* the listing of profile prod: a page of five secrets, then one of twelve
ProdFirstPage ==
    << <<"a", "1">>, <<"b", "2">>, <<"c", "A">>, <<"d", "4">>, <<"A", "5">> >>

ProdLastPage ==
    << <<"a", "0">>, <<"b", "1">>, <<"A", "2">>, <<"c", "3">>, <<"d", "4">>, <<"e", "5">>,
       <<"f", "a">>, <<"g", "7">>, <<"h", "8">>, <<"A", "9">>, <<"i", "x">>, <<"j", "y">> >>

SourcePages ==
    [c \in {"default", "dev", "prod", "sandbox"} |->
        CASE c = "default" ->
               (NoToken :> [secrets |-> << <<"A">>, <<"a", "b">>, <<"B">> >>, nextToken |-> "t1"])
            @@ ("t1"  :> [secrets |-> << <<"b", "a">>, <<"c">> >>,          nextToken |-> "t2"])
            @@ ("t2"  :> [secrets |-> << <<"C", "a">> >>,                   nextToken |-> NoToken])
          [] c = "dev" ->
               (NoToken :> [secrets |-> << <<"d">>, <<"a", "d">> >>,        nextToken |-> NoToken])
          [] c = "prod" ->
               (NoToken :> [secrets |-> ProdFirstPage, nextToken |-> "u1"])
            @@ ("u1"  :> [secrets |-> ProdLastPage,  nextToken |-> NoToken])
          [] c = "sandbox" ->
               \* a page without secrets, then a page of two
               (NoToken :> [secrets |-> << >>,                        nextToken |-> "s1"])
            @@ ("s1"  :> [secrets |-> << <<"b">>, <<"c", "d">> >>,    nextToken |-> NoToken])]

\* Client.ListSecrets(ctx, maxResults, nextToken) when the call succeeds
ListSecrets(client, token) == SourcePages[client.profile][token]

(***************************************************************************)
(* components.SecretGrid (grid.go).  A grid value is a record.             *)
(***************************************************************************)

\* a column search that takes the smallest fitting column count
FindCols_Smallest(width, cols) ==
    LET fitting == {c \in 1..cols :
                        /\ GoDiv(width - (c - 1) * CellSpacing, c) >= MinCellWidth
                        /\ GoDiv(width - (c - 1) * CellSpacing, c) <= MaxCellWidth}
    IN  IF fitting = {}
        THEN [optimalCols |-> 1, optimalWidth |-> MinCellWidth]
        ELSE LET c == CHOOSE x \in fitting : \A y \in fitting : x <= y
             IN  [optimalCols |-> c, optimalWidth |-> GoDiv(width - (c - 1) * CellSpacing, c)]

\* a column search without the upper bound on the cell width
FindCols_Unbounded(width, cols) ==
    IF GoDiv(width - (cols - 1) * CellSpacing, cols) >= MinCellWidth
    THEN [optimalCols |-> cols, optimalWidth |-> GoDiv(width - (cols - 1) * CellSpacing, cols)]
    ELSE [optimalCols |-> 1, optimalWidth |-> MinCellWidth]

\* the column search of calculateGridDimensions: the loop from cols down to 1
RECURSIVE FindCols(_, _)
FindCols(width, cols) ==
    IF cols < 1
    THEN [optimalCols |-> 1, optimalWidth |-> MinCellWidth]
    ELSE LET availableWidth == width - (cols - 1) * CellSpacing
             widthPerCell   == GoDiv(availableWidth, cols)
         IN  IF widthPerCell >= MinCellWidth /\ widthPerCell <= MaxCellWidth
             THEN [optimalCols |-> cols, optimalWidth |-> widthPerCell]
             ELSE FindCols(width, cols - 1)

calculateGridDimensions(g) ==
    LET cellHeight      == DefaultCellHeight + 1
        numRows         == max(1, GoDiv(g.height, cellHeight))
        maxPossibleCols == max(1, GoDiv(g.width, MinCellWidth + CellSpacing))
        found           == FindCols(g.width, maxPossibleCols)
        fallback        == found.optimalCols = 0 \/ found.optimalWidth < MinCellWidth
        numCols         == IF fallback THEN 1 ELSE found.optimalCols
        cellWidth       == IF fallback THEN max(MinCellWidth, g.width) ELSE found.optimalWidth
        secretsPerPage  == numCols * numRows
        totalGridPages  == IF secretsPerPage > 0 /\ Len(g.filteredSecrets) > 0
                           THEN GoDiv(Len(g.filteredSecrets) + secretsPerPage - 1, secretsPerPage)
                           ELSE 1
    IN  [g EXCEPT !.numRows        = numRows,
                  !.numCols        = numCols,
                  !.cellWidth      = cellWidth,
                  !.totalGridPages = totalGridPages,
                  !.gridPageIndex  = IF g.gridPageIndex >= totalGridPages
                                     THEN max(0, totalGridPages - 1)
                                     ELSE g.gridPageIndex]

cursorIndex(g) == g.cursorRow * g.numCols + g.cursorCol

\* a getVisibleSecrets that always shows the first screen page
getVisibleSecrets_FirstPage(g) ==
    SubSeq(g.filteredSecrets, 1, min(g.numCols * g.numRows, Len(g.filteredSecrets)))

\* a getVisibleSecrets whose slice runs one item into the next screen page
getVisibleSecrets_Overlap(g) ==
    LET secretsPerPage == g.numCols * g.numRows
        startIdx       == g.gridPageIndex * secretsPerPage
        endIdx         == min(startIdx + secretsPerPage + 1, Len(g.filteredSecrets))
    IN  IF startIdx >= Len(g.filteredSecrets)
        THEN << >>
        ELSE SubSeq(g.filteredSecrets, startIdx + 1, endIdx)

getVisibleSecrets(g) ==
    LET secretsPerPage == g.numCols * g.numRows
        startIdx       == g.gridPageIndex * secretsPerPage
        endIdx         == min(startIdx + secretsPerPage, Len(g.filteredSecrets))
    IN  IF startIdx >= Len(g.filteredSecrets)
        THEN << >>
        ELSE SubSeq(g.filteredSecrets, startIdx + 1, endIdx)

validateCursorPosition(g) ==
    IF cursorIndex(g) >= Len(getVisibleSecrets(g))
    THEN [g EXCEPT !.cursorRow = 0, !.cursorCol = 0]
    ELSE g

\* nil when no secret is under the cursor
NoSecret == "nil"

SelectedSecret(g) ==
    LET visibleSecrets == getVisibleSecrets(g)
        idx            == cursorIndex(g)
    IN  IF idx >= 0 /\ idx < Len(visibleSecrets)
        THEN visibleSecrets[idx + 1]
        ELSE NoSecret

\* a paging that drops the items already shown instead of advancing the index
nextGridPage_Consume(g) ==
    IF g.gridPageIndex < g.totalGridPages - 1
    THEN [g EXCEPT !.filteredSecrets =
                       SubSeq(g.filteredSecrets, g.numCols * g.numRows + 1,
                              Len(g.filteredSecrets)),
                   !.cursorRow = 0, !.cursorCol = 0]
    ELSE g

\* a paging that does not stop at the last screen page
nextGridPage_Unchecked(g) ==
    [g EXCEPT !.gridPageIndex = g.gridPageIndex + 1, !.cursorRow = 0, !.cursorCol = 0]

nextGridPage(g) ==
    IF g.gridPageIndex < g.totalGridPages - 1
    THEN [g EXCEPT !.gridPageIndex = g.gridPageIndex + 1, !.cursorRow = 0, !.cursorCol = 0]
    ELSE g

prevGridPage(g) ==
    IF g.gridPageIndex > 0
    THEN [g EXCEPT !.gridPageIndex = g.gridPageIndex - 1, !.cursorRow = 0, !.cursorCol = 0]
    ELSE g

moveUp(g) ==
    IF g.cursorRow > 0
    THEN validateCursorPosition([g EXCEPT !.cursorRow = g.cursorRow - 1])
    ELSE IF g.gridPageIndex > 0
         THEN validateCursorPosition([prevGridPage(g) EXCEPT !.cursorRow = g.numRows - 1])
         ELSE g

moveDown(g) ==
    LET newRow == g.cursorRow + 1
    IN  IF newRow < g.numRows
           /\ newRow * g.numCols + g.cursorCol < Len(getVisibleSecrets(g))
        THEN [g EXCEPT !.cursorRow = newRow]
        ELSE IF g.gridPageIndex < g.totalGridPages - 1
             THEN [nextGridPage(g) EXCEPT !.cursorRow = 0]
             ELSE g

\* a moveLeft that wraps to the row above
moveLeft_Wrap(g) ==
    IF g.cursorCol > 0 THEN [g EXCEPT !.cursorCol = g.cursorCol - 1]
    ELSE IF g.cursorRow > 0
         THEN [g EXCEPT !.cursorRow = g.cursorRow - 1, !.cursorCol = g.numCols - 1]
         ELSE g

moveLeft(g) ==
    IF g.cursorCol > 0 THEN [g EXCEPT !.cursorCol = g.cursorCol - 1] ELSE g

\* a moveRight that ignores a ragged last row
moveRight_Unchecked(g) ==
    IF g.cursorCol + 1 < g.numCols THEN [g EXCEPT !.cursorCol = g.cursorCol + 1] ELSE g

moveRight(g) ==
    LET newCol == g.cursorCol + 1
    IN  IF newCol < g.numCols
           /\ g.cursorRow * g.numCols + newCol < Len(getVisibleSecrets(g))
        THEN [g EXCEPT !.cursorCol = newCol]
        ELSE g

\* the filter loop of applyFilter: the secrets whose lower-cased name contains lowerQuery
FilterSecrets(secrets, lowerQuery) ==
    SelectSeq(secrets, LAMBDA name : Contains(ToLower(name), lowerQuery))

\* an applyFilter that keeps the cursor where it is
applyFilter_KeepCursor(g, query) ==
    calculateGridDimensions(
        [g EXCEPT !.filterQuery     = query,
                  !.filteredSecrets = IF query = << >>
                                      THEN g.secrets
                                      ELSE FilterSecrets(g.secrets, ToLower(query)),
                  !.gridPageIndex   = 0])

applyFilter(g, query) ==
    calculateGridDimensions(
        [g EXCEPT !.filterQuery     = query,
                  !.filteredSecrets = IF query = << >>
                                      THEN g.secrets
                                      ELSE FilterSecrets(g.secrets, ToLower(query)),
                  !.cursorRow       = 0,
                  !.cursorCol       = 0,
                  !.gridPageIndex   = 0])

clearFilter(g) ==
    applyFilter([g EXCEPT !.filterQuery = << >>, !.filtering = FALSE], << >>)

\* a SetSecrets that shows the new items without applying the query
SetSecrets_Unfiltered(g, secrets) ==
    calculateGridDimensions(
        [g EXCEPT !.secrets = secrets, !.filteredSecrets = secrets,
                  !.cursorRow = 0, !.cursorCol = 0, !.gridPageIndex = 0])

SetSecrets(g, secrets) ==
    [applyFilter([g EXCEPT !.secrets = secrets], g.filterQuery)
        EXCEPT !.cursorRow = 0, !.cursorCol = 0, !.gridPageIndex = 0]

\* a SetSize that does not validate the cursor
SetSize_Unvalidated(g, width, height) ==
    calculateGridDimensions([g EXCEPT !.width = width, !.height = height])

SetSize(g, width, height) ==
    validateCursorPosition(
        calculateGridDimensions([g EXCEPT !.width = width, !.height = height]))

NewSecretGrid(width, height) ==
    calculateGridDimensions(
        [secrets         |-> << >>,
         filteredSecrets |-> << >>,
         cursorRow       |-> 0,
         cursorCol       |-> 0,
         numCols         |-> 0,
         numRows         |-> 0,
         cellWidth       |-> 0,
         gridPageIndex   |-> 0,
         totalGridPages  |-> 0,
         width           |-> width,
         height          |-> height,
         filterQuery     |-> << >>,
         filtering       |-> FALSE])

\* SecretGrid.Update: key is msg.String().  The keys with a name of more than one
\* character; every other key is a typed character, len(msg.String()) == 1.
NamedKeys == {"up", "down", "left", "right", "pgup", "pgdown",
              "esc", "enter", "backspace", "ctrl+c"}

GridUpdateFiltering(g, key) ==
    CASE key = "esc"       -> clearFilter(g)
      [] key = "backspace" -> IF Len(g.filterQuery) > 0
                              THEN applyFilter(g, SubSeq(g.filterQuery, 1, Len(g.filterQuery) - 1))
                              ELSE g
      [] key = "enter"     -> [g EXCEPT !.filtering = FALSE]
      [] OTHER             -> IF key \notin NamedKeys
                              THEN applyFilter(g, Append(g.filterQuery, key))
                              ELSE g

GridUpdateNavigation(g, key) ==
    CASE key \in {"up", "k"}       -> moveUp(g)
      [] key \in {"down", "j"}     -> moveDown(g)
      [] key \in {"left", "h"}     -> moveLeft(g)
      [] key \in {"right", "l"}    -> moveRight(g)
      [] key \in {" ", "pgdown"}   -> nextGridPage(g)
      [] key = "pgup"              -> prevGridPage(g)
      [] key = "/"                 -> [g EXCEPT !.filtering = TRUE]
      [] OTHER                     -> g

GridUpdate(g, key) ==
    IF g.filtering THEN GridUpdateFiltering(g, key) ELSE GridUpdateNavigation(g, key)

(***************************************************************************)
(* Commands (tea.Cmd) and messages (tea.Msg) of app.go.                    *)
(***************************************************************************)
NoCmd == [cmd |-> "nil"]

Quit == [cmd |-> "tea.Quit"]

\* a Go runtime panic inside Update: the program terminates
Panic == [cmd |-> "panic"]

loadSecrets(client, nextToken) ==
    [cmd |-> "loadSecrets", client |-> client, nextToken |-> nextToken]

loadSecretValue(client, secretName) ==
    [cmd |-> "loadSecretValue", client |-> client, secretName |-> secretName]

initAWSClient(profile, region) ==
    [cmd |-> "initAWSClient", profile |-> profile, region |-> region]

copyToClipboard(value, asJSON) ==
    [cmd |-> "copyToClipboard", value |-> value, asJSON |-> asJSON]

\* clearStatusAfter(2 * time.Second): a tick that delivers clearStatusMsg
clearStatusAfter == [cmd |-> "clearStatusAfter"]

KeyMsg(key) == [type |-> "KeyMsg", key |-> key]

WindowSizeMsg(width, height) ==
    [type |-> "WindowSizeMsg", Width |-> width, Height |-> height]

secretsLoadedMsg(secrets, nextToken, err) ==
    [type |-> "secretsLoadedMsg", secrets |-> secrets, nextToken |-> nextToken, err |-> err]

secretValueLoadedMsg(value, err) ==
    [type |-> "secretValueLoadedMsg", value |-> value, err |-> err]

clientChangedMsg(client, profile, region, err) ==
    [type |-> "clientChangedMsg", client |-> client, profile |-> profile,
     region |-> region, err |-> err]

clipboardCopiedMsg(success, err) ==
    [type |-> "clipboardCopiedMsg", success |-> success, err |-> err]

clearStatusMsg == [type |-> "clearStatusMsg"]

\* Client.GetSecretValue when the call succeeds
GetSecretValue(client, secretName) == <<"$">> \o secretName

(***************************************************************************)
(* ui.Model (app.go).                                                      *)
(***************************************************************************)
ScreenSecretList      == "ScreenSecretList"

ScreenSecretDetail    == "ScreenSecretDetail"

ScreenProfileSelector == "ScreenProfileSelector"

ScreenRegionSelector  == "ScreenRegionSelector"

secretPage(secrets, nextToken) == [secrets |-> secrets, nextToken |-> nextToken]

NewModel(profile, region) ==
    [currentScreen   |-> ScreenSecretList,
     awsClient       |-> NilClient,
     currentProfile  |-> profile,
     currentRegion   |-> region,
     secrets         |-> << >>,
     secretValue     |-> << >>,
     nextToken       |-> NoToken,
     hasMore         |-> FALSE,
     pageHistory     |-> << >>,
     currentPage     |-> 0,
     grid            |-> NewSecretGrid(80, 20),
     profileSelector |-> 0,
     regionSelector  |-> 0,
     loading         |-> TRUE,
     errorMessage    |-> "",
     statusMessage   |-> "",
     showHelp        |-> FALSE]

\* Model.Init
ModelInit(mm) == initAWSClient(mm.currentProfile, mm.currentRegion)

\* the page shown from history by 'n' and 'b'
ShowPage(mm, page, hasMore) ==
    [mm EXCEPT !.secrets   = page.secrets,
               !.nextToken = page.nextToken,
               !.hasMore   = hasMore,
               !.grid      = SetSecrets(mm.grid, page.secrets)]

\* handleSecretListKeys, case "r"
KeyRefresh(mm) ==
    [model |-> [mm EXCEPT !.loading     = TRUE,
                          !.nextToken   = NoToken,
                          !.pageHistory = << >>,
                          !.currentPage = 0],
     cmd   |-> loadSecrets(mm.awsClient, NoToken)]

\* handleSecretListKeys, case "n"
KeyNextPage(mm) ==
    IF mm.hasMore
    THEN LET cur == mm.currentPage + 1
         IN  IF cur < Len(mm.pageHistory)
             THEN LET page == mm.pageHistory[cur + 1]
                  IN  [model |-> ShowPage([mm EXCEPT !.currentPage = cur], page,
                                          page.nextToken # NoToken),
                       cmd   |-> NoCmd]
             ELSE [model |-> [mm EXCEPT !.currentPage = cur, !.loading = TRUE],
                   cmd   |-> loadSecrets(mm.awsClient, mm.nextToken)]
    ELSE [model |-> mm, cmd |-> NoCmd]

\* handleSecretListKeys, case "b"
KeyPrevPage(mm) ==
    IF mm.currentPage > 0
    THEN LET cur == mm.currentPage - 1
         IN  IF cur >= Len(mm.pageHistory)
             THEN \* m.pageHistory[m.currentPage]: index out of range
                  [model |-> [mm EXCEPT !.currentPage = cur], cmd |-> Panic]
             ELSE LET page == mm.pageHistory[cur + 1]
                  IN  [model |-> ShowPage([mm EXCEPT !.currentPage = cur], page,
                                          page.nextToken # NoToken
                                              \/ cur < Len(mm.pageHistory) - 1),
                       cmd   |-> NoCmd]
    ELSE [model |-> mm, cmd |-> NoCmd]

handleSecretListKeys(mm, key) ==
    CASE key \in {"q", "esc"} -> [model |-> mm, cmd |-> Quit]
      [] key = "enter" ->
            [model |-> IF SelectedSecret(mm.grid) # NoSecret
                       THEN [mm EXCEPT !.currentScreen = ScreenSecretDetail,
                                       !.secretValue   = << >>]
                       ELSE mm,
             cmd   |-> NoCmd]
      [] key = "r" -> KeyRefresh(mm)
      [] key = "n" -> KeyNextPage(mm)
      [] key = "b" -> KeyPrevPage(mm)
      [] key = "?" -> [model |-> [mm EXCEPT !.showHelp = ~mm.showHelp], cmd |-> NoCmd]
      [] key = "p" ->
            [model |-> [mm EXCEPT !.profileSelector = 0,
                                  !.currentScreen   = ScreenProfileSelector],
             cmd   |-> NoCmd]
      [] key = "g" ->
            [model |-> [mm EXCEPT !.regionSelector = 0,
                                  !.currentScreen  = ScreenRegionSelector],
             cmd   |-> NoCmd]
      [] OTHER -> [model |-> [mm EXCEPT !.grid = GridUpdate(mm.grid, key)], cmd |-> NoCmd]

\* detail keys whose 'c' fetches the value first when none has been loaded
handleSecretDetailKeys_FetchOnCopy(mm, key) ==
    CASE key \in {"q", "esc"} ->
            [model |-> [mm EXCEPT !.currentScreen = ScreenSecretList,
                                  !.secretValue   = << >>],
             cmd   |-> NoCmd]
      [] key \in {"v", "c"} /\ SelectedSecret(mm.grid) # NoSecret /\ mm.secretValue = << >> ->
            [model |-> [mm EXCEPT !.loading = TRUE],
             cmd   |-> loadSecretValue(mm.awsClient, SelectedSecret(mm.grid))]
      [] key \in {"c", "j"} /\ mm.secretValue # << >> ->
            [model |-> mm, cmd |-> copyToClipboard(mm.secretValue, key = "j")]
      [] OTHER -> [model |-> mm, cmd |-> NoCmd]

handleSecretDetailKeys(mm, key) ==
    CASE key \in {"q", "esc"} ->
            [model |-> [mm EXCEPT !.currentScreen = ScreenSecretList,
                                  !.secretValue   = << >>],
             cmd   |-> NoCmd]
      [] key = "v" ->
            IF SelectedSecret(mm.grid) # NoSecret /\ mm.secretValue = << >>
            THEN [model |-> [mm EXCEPT !.loading = TRUE],
                  cmd   |-> loadSecretValue(mm.awsClient, SelectedSecret(mm.grid))]
            ELSE [model |-> mm, cmd |-> NoCmd]
      [] key = "c" ->
            IF mm.secretValue # << >>
            THEN [model |-> mm, cmd |-> copyToClipboard(mm.secretValue, FALSE)]
            ELSE [model |-> mm, cmd |-> NoCmd]
      [] key = "j" ->
            IF mm.secretValue # << >>
            THEN [model |-> mm, cmd |-> copyToClipboard(mm.secretValue, TRUE)]
            ELSE [model |-> mm, cmd |-> NoCmd]
      [] OTHER -> [model |-> mm, cmd |-> NoCmd]

\* ProfileSelector.SelectedProfile: the item under the list's cursor
SelectedProfile(mm) == Profiles[mm.profileSelector + 1]

handleProfileSelectorKeys(mm, key) ==
    CASE key \in {"q", "esc"} ->
            [model |-> [mm EXCEPT !.currentScreen = ScreenSecretList], cmd |-> NoCmd]
      [] key = "enter" ->
            IF SelectedProfile(mm) # "" /\ SelectedProfile(mm) # mm.currentProfile
            THEN [model |-> [mm EXCEPT !.loading = TRUE, !.currentScreen = ScreenSecretList],
                  cmd   |-> initAWSClient(SelectedProfile(mm), mm.currentRegion)]
            ELSE [model |-> [mm EXCEPT !.currentScreen = ScreenSecretList], cmd |-> NoCmd]
      [] key \in {"down", "j"} ->
            [model |-> [mm EXCEPT !.profileSelector = min(mm.profileSelector + 1, Len(Profiles) - 1)],
             cmd   |-> NoCmd]
      [] key \in {"up", "k"} ->
            [model |-> [mm EXCEPT !.profileSelector = max(mm.profileSelector - 1, 0)],
             cmd   |-> NoCmd]
      [] OTHER -> [model |-> mm, cmd |-> NoCmd]

\* RegionSelector.SelectedRegion: the item under the list's cursor
SelectedRegion(mm) == Regions[mm.regionSelector + 1]

handleRegionSelectorKeys(mm, key) ==
    CASE key \in {"q", "esc"} ->
            [model |-> [mm EXCEPT !.currentScreen = ScreenSecretList], cmd |-> NoCmd]
      [] key = "enter" ->
            IF SelectedRegion(mm) # "" /\ SelectedRegion(mm) # mm.currentRegion
            THEN [model |-> [mm EXCEPT !.loading = TRUE, !.currentScreen = ScreenSecretList],
                  cmd   |-> initAWSClient(mm.currentProfile, SelectedRegion(mm))]
            ELSE [model |-> [mm EXCEPT !.currentScreen = ScreenSecretList], cmd |-> NoCmd]
      [] key \in {"down", "j"} ->
            [model |-> [mm EXCEPT !.regionSelector = min(mm.regionSelector + 1, Len(Regions) - 1)],
             cmd   |-> NoCmd]
      [] key \in {"up", "k"} ->
            [model |-> [mm EXCEPT !.regionSelector = max(mm.regionSelector - 1, 0)],
             cmd   |-> NoCmd]
      [] OTHER -> [model |-> mm, cmd |-> NoCmd]

\* Model.Update
Update(mm, msg) ==
    CASE msg.type = "WindowSizeMsg" ->
            [model |-> [mm EXCEPT !.grid = SetSize(mm.grid, msg.Width - 6, msg.Height - 10)],
             cmd   |-> NoCmd]
      [] msg.type = "KeyMsg" ->
            IF msg.key = "ctrl+c"
            THEN [model |-> mm, cmd |-> Quit]
            ELSE (CASE mm.currentScreen = ScreenSecretList      -> handleSecretListKeys(mm, msg.key)
                    [] mm.currentScreen = ScreenSecretDetail    -> handleSecretDetailKeys(mm, msg.key)
                    [] mm.currentScreen = ScreenProfileSelector -> handleProfileSelectorKeys(mm, msg.key)
                    [] mm.currentScreen = ScreenRegionSelector  -> handleRegionSelectorKeys(mm, msg.key))
      [] msg.type = "clientChangedMsg" ->
            IF msg.err
            THEN [model |-> [mm EXCEPT !.errorMessage = "Failed to initialize AWS client",
                                       !.loading      = FALSE],
                  cmd   |-> NoCmd]
            ELSE [model |-> [mm EXCEPT !.awsClient      = msg.client,
                                       !.currentProfile = msg.profile,
                                       !.currentRegion  = msg.region,
                                       !.loading        = TRUE],
                  cmd   |-> loadSecrets(msg.client, NoToken)]
      [] msg.type = "secretsLoadedMsg" ->
            IF msg.err
            THEN [model |-> [mm EXCEPT !.loading      = FALSE,
                                       !.errorMessage = "Failed to load secrets"],
                  cmd   |-> NoCmd]
            ELSE [model |->
                    [mm EXCEPT !.loading      = FALSE,
                               !.secrets      = msg.secrets,
                               !.nextToken    = msg.nextToken,
                               !.hasMore      = msg.nextToken # NoToken,
                               !.grid         = SetSecrets(mm.grid, msg.secrets),
                               !.errorMessage = "",
                               !.pageHistory  =
                                   IF mm.currentPage < Len(mm.pageHistory)
                                   THEN [mm.pageHistory EXCEPT ![mm.currentPage + 1] =
                                            secretPage(msg.secrets, msg.nextToken)]
                                   ELSE Append(mm.pageHistory,
                                               secretPage(msg.secrets, msg.nextToken))],
                  cmd   |-> NoCmd]
      [] msg.type = "secretValueLoadedMsg" ->
            IF msg.err
            THEN [model |-> [mm EXCEPT !.loading      = FALSE,
                                       !.errorMessage = "Failed to load secret value"],
                  cmd   |-> NoCmd]
            ELSE [model |-> [mm EXCEPT !.loading      = FALSE,
                                       !.secretValue  = msg.value,
                                       !.errorMessage = ""],
                  cmd   |-> NoCmd]
      [] msg.type = "clearStatusMsg" ->
            [model |-> [mm EXCEPT !.statusMessage = ""], cmd |-> NoCmd]
      [] msg.type = "clipboardCopiedMsg" ->
            IF msg.err
            THEN [model |-> [mm EXCEPT !.errorMessage = "Failed to copy to clipboard"],
                  cmd   |-> NoCmd]
            ELSE IF msg.success
                 THEN [model |-> [mm EXCEPT !.statusMessage = "Copied to clipboard!"],
                       cmd   |-> clearStatusAfter]
                 ELSE [model |-> mm, cmd |-> NoCmd]

(***************************************************************************)
(* The commands' functions: the messages a dispatched command can deliver. *)
(***************************************************************************)
\* a loadSecrets that reports a listing without secrets as a failure
loadSecretsResults_EmptyIsError(c) ==
    IF c.client = NilClient \/ c.nextToken \notin DOMAIN SourcePages[c.client.profile]
       \/ ListSecrets(c.client, c.nextToken).secrets = << >>
    THEN {secretsLoadedMsg(<< >>, NoToken, TRUE)}
    ELSE {secretsLoadedMsg(ListSecrets(c.client, c.nextToken).secrets,
                           ListSecrets(c.client, c.nextToken).nextToken, FALSE),
          secretsLoadedMsg(<< >>, NoToken, TRUE)}

\* the closure returned by loadSecrets
loadSecretsResults(c) ==
    IF c.client = NilClient \/ c.nextToken \notin DOMAIN SourcePages[c.client.profile]
    THEN \* no client, or a token the Source does not know: the call fails
         {secretsLoadedMsg(<< >>, NoToken, TRUE)}
    ELSE {secretsLoadedMsg(ListSecrets(c.client, c.nextToken).secrets,
                           ListSecrets(c.client, c.nextToken).nextToken, FALSE),
          secretsLoadedMsg(<< >>, NoToken, TRUE)}

\* the closure returned by loadSecretValue
loadSecretValueResults(c) ==
    IF c.client = NilClient
    THEN {secretValueLoadedMsg(<< >>, TRUE)}
    ELSE {secretValueLoadedMsg(GetSecretValue(c.client, c.secretName), FALSE),
          secretValueLoadedMsg(<< >>, TRUE)}

\* the closure returned by initAWSClient (profiles without MFA)
initAWSClientResults(c) ==
    {clientChangedMsg(ClientOf(c.profile, c.region), c.profile, c.region, FALSE),
     clientChangedMsg(NilClient, c.profile, c.region, TRUE)}

\* the closure returned by copyToClipboard: clipboard.WriteAll succeeds or fails
copyToClipboardResults(c) ==
    {clipboardCopiedMsg(TRUE, FALSE), clipboardCopiedMsg(FALSE, TRUE)}

Results(c) ==
    CASE c.cmd = "loadSecrets"      -> loadSecretsResults(c)
      [] c.cmd = "loadSecretValue"  -> loadSecretValueResults(c)
      [] c.cmd = "initAWSClient"    -> initAWSClientResults(c)
      [] c.cmd = "copyToClipboard"  -> copyToClipboardResults(c)
      [] c.cmd = "clearStatusAfter" -> {clearStatusMsg}

(***************************************************************************)
(* The Bubble Tea program: the event loop around Update.                   *)
(***************************************************************************)
\* an outstanding command, tagged with the event that dispatched it
Entry(c, by) == [c |-> c, by |-> by]

\* the history of list calls after cmd is dispatched by the event by: loadSecrets
\* calls the Source only with a client, and a Refresh starts the history afresh
Record(cmd, by) ==
    LET since == IF cmd.cmd = "loadSecrets" /\ by = "r" THEN {} ELSE issued
    IN  IF cmd.cmd = "loadSecrets" /\ cmd.client # NilClient
        THEN since \cup {cmd.nextToken}
        ELSE since

\* the runtime's handling of the command Update returned
Dispatch(r, by) ==
    /\ m' = r.model
    /\ status' = CASE r.cmd = Quit  -> "quit"
                   [] r.cmd = Panic -> "panicked"
                   [] OTHER         -> "running"
    /\ IF r.cmd \in {NoCmd, Quit, Panic}
       THEN inflight' = inflight
       ELSE /\ BagCardinality(inflight) < MaxInFlight
            /\ inflight' = inflight (+) SetToBag({Entry(r.cmd, by)})
    /\ issued' = Record(r.cmd, by)

\* one turn of the event loop: Update on msg, then the command it returned
Handle(msg, by) ==
    /\ status = "running"
    /\ LET r == Update(m, msg)
       IN  /\ r.model.currentPage <= MaxPage
           /\ Len(r.model.grid.filterQuery) <= MaxQueryLen
           /\ Dispatch(r, by)

Key(key) == Handle(KeyMsg(key), key)

\* a delivery that discards the response of a list fetch dispatched before the
\* last Refresh
Deliver_DiscardStale(e, msg) ==
    /\ status = "running"
    /\ BagIn(e, inflight)
    /\ msg \in Results(e.c)
    /\ LET r     == Update(m, msg)
           rest  == inflight (-) SetToBag({e})
           stale == e.c.cmd = "loadSecrets" /\ e.by # "r" /\ e.c.nextToken \notin issued
       IN  /\ m' = IF stale THEN m ELSE r.model
           /\ status' = status
           /\ inflight' = IF stale \/ r.cmd = NoCmd THEN rest
                          ELSE rest (+) SetToBag({Entry(r.cmd, msg.type)})
           /\ issued' = IF stale THEN issued ELSE Record(r.cmd, msg.type)

\* a delivery after which loading stays set once it was set
Deliver_LoadingSticky(e, msg) ==
    /\ status = "running"
    /\ BagIn(e, inflight)
    /\ msg \in Results(e.c)
    /\ LET r    == Update(m, msg)
           rest == inflight (-) SetToBag({e})
       IN  /\ m' = [r.model EXCEPT !.loading = m.loading \/ r.model.loading]
           /\ status' = status
           /\ inflight' = IF r.cmd = NoCmd THEN rest
                          ELSE rest (+) SetToBag({Entry(r.cmd, msg.type)})
           /\ issued' = Record(r.cmd, msg.type)

\* the completion message msg of the outstanding command e is delivered
Deliver(e, msg) ==
    /\ status = "running"
    /\ BagIn(e, inflight)
    /\ msg \in Results(e.c)
    /\ LET r    == Update(m, msg)
           rest == inflight (-) SetToBag({e})
       IN  /\ m' = r.model
           /\ status' = status
           /\ inflight' = IF r.cmd = NoCmd THEN rest
                          ELSE rest (+) SetToBag({Entry(r.cmd, msg.type)})
           /\ issued' = Record(r.cmd, msg.type)

Outstanding(cmd) == {e \in BagToSet(inflight) : e.c.cmd = cmd}

Init ==
    /\ m = NewModel(Profiles[1], Regions[1])
    /\ inflight = SetToBag({Entry(ModelInit(NewModel(Profiles[1], Regions[1])), "Init")})
    /\ status = "running"
    /\ issued = {}

(***************************************************************************)
(* The input events.  A key acts by the screen and mode the model is in;   *)
(* the names are the key's meaning on the secret list outside filter mode. *)
(***************************************************************************)
Refresh == status = "running" /\ Key("r")

NextRemotePage == status = "running" /\ Key("n")

PrevRemotePage == status = "running" /\ Key("b")

MoveUp == status = "running" /\ Key("up")

MoveDown == status = "running" /\ Key("down")

MoveLeft == status = "running" /\ Key("left")

MoveRight == status = "running" /\ Key("right")

NextScreenPage == status = "running" /\ Key("pgdown")

PrevScreenPage == status = "running" /\ Key("pgup")

EnterFilterMode == status = "running" /\ Key("/")

FilterChars == {"A"}

FilterChar == \E c \in FilterChars : status = "running" /\ Key(c)

FilterBackspace == status = "running" /\ Key("backspace")

\* the terminal sizes a resize reports
ListSizes == {<<86, 15>>, <<86, 30>>}

Resize ==
    \E size \in ListSizes :
        status = "running" /\ Handle(WindowSizeMsg(size[1], size[2]), "WindowSizeMsg")

\* client initialisation completes
ClientChanged ==
    \E e \in Outstanding("initAWSClient") :
        \E msg \in {r \in Results(e.c) : ~r.err} : Deliver(e, msg)

ClientFailed ==
    \E e \in Outstanding("initAWSClient") :
        \E msg \in {r \in Results(e.c) : r.err} : Deliver(e, msg)

\* a list fetch completes
FetchCompleted ==
    \E e \in Outstanding("loadSecrets") :
        \E msg \in {r \in Results(e.c) : ~r.err} : Deliver(e, msg)

FetchError ==
    \E e \in Outstanding("loadSecrets") :
        \E msg \in {r \in Results(e.c) : r.err} : Deliver(e, msg)

(***************************************************************************)
(* Spec: the secret list screen.  Remote paging (r, n, b), cursor and      *)
(* screen-page movement, the filter, resizes, and fetch completions that   *)
(* succeed or fail, in any interleaving.                                   *)
(***************************************************************************)
Next ==
    \/ Refresh
    \/ NextRemotePage
    \/ PrevRemotePage
    \/ MoveUp
    \/ MoveDown
    \/ MoveLeft
    \/ MoveRight
    \/ NextScreenPage
    \/ PrevScreenPage
    \/ EnterFilterMode
    \/ FilterChar
    \/ FilterBackspace
    \/ Resize
    \/ ClientChanged
    \/ ClientFailed
    \/ FetchCompleted
    \/ FetchError

Spec == Init /\ [][Next]_vars

(***************************************************************************)
(* LayoutSpec: the layout computation over every terminal size.  The       *)
(* window is resized to any width and to any height up to the bounds; the  *)
(* grid gets the content size, Width - 6 by Height - 10, negative for a    *)
(* small window.                                                           *)
(***************************************************************************)
\* the terminal size the grid's size came from
TermWidth(mm) == mm.grid.width + 6

TermHeight(mm) == mm.grid.height + 10

ResizeWidth ==
    \E width \in 0..MaxTermWidth :
        status = "running" /\ Handle(WindowSizeMsg(width, TermHeight(m)), "WindowSizeMsg")

ResizeHeight ==
    \E height \in 0..MaxTermHeight :
        status = "running" /\ Handle(WindowSizeMsg(TermWidth(m), height), "WindowSizeMsg")

LayoutNext ==
    \/ ResizeWidth
    \/ ResizeHeight

LayoutSpec == Init /\ [][LayoutNext]_vars

(***************************************************************************)
(* GridSpec: the grid over the listing of profile prod.  The pages are     *)
(* loaded and revisited, the cursor and the screen page are moved, a query *)
(* is typed and erased, and the window is resized between a three-by-two,  *)
(* a two-by-one and a one-by-one grid.                                     *)
(***************************************************************************)
GridInit ==
    /\ m = NewModel(Profiles[3], Regions[1])
    /\ inflight = SetToBag({Entry(ModelInit(NewModel(Profiles[3], Regions[1])), "Init")})
    /\ status = "running"
    /\ issued = {}

\* the terminal sizes a resize reports
GridSizes == {<<119, 20>>, <<86, 15>>, <<40, 12>>}

GridResize ==
    \E size \in GridSizes :
        status = "running" /\ Handle(WindowSizeMsg(size[1], size[2]), "WindowSizeMsg")

GridNext ==
    \/ ClientChanged
    \/ FetchCompleted
    \/ NextRemotePage
    \/ PrevRemotePage
    \/ MoveUp
    \/ MoveDown
    \/ MoveLeft
    \/ MoveRight
    \/ NextScreenPage
    \/ PrevScreenPage
    \/ EnterFilterMode
    \/ FilterChar
    \/ FilterBackspace
    \/ GridResize

GridSpec == GridInit /\ [][GridNext]_vars

(***************************************************************************)
(* DetailSpec: the secret detail screen.  A secret is opened from the      *)
(* list, its value is requested, copied, and the screen is left, while     *)
(* the list is refreshed, filtered and resized and list fetches, value     *)
(* fetches and clipboard commands complete in any order.                   *)
(***************************************************************************)
DetailInit ==
    /\ m = NewModel(Profiles[3], Regions[2])
    /\ inflight = SetToBag({Entry(ModelInit(NewModel(Profiles[3], Regions[2])), "Init")})
    /\ status = "running"
    /\ issued = {}

OpenDetail == status = "running" /\ Key("enter")

ViewValue == status = "running" /\ Key("v")

CopyPlain == status = "running" /\ Key("c")

Back == status = "running" /\ Key("esc")

\* a secret-value fetch completes
ValueLoaded ==
    \E e \in Outstanding("loadSecretValue") :
        \E msg \in {r \in Results(e.c) : ~r.err} : Deliver(e, msg)

ValueError ==
    \E e \in Outstanding("loadSecretValue") :
        \E msg \in {r \in Results(e.c) : r.err} : Deliver(e, msg)

\* a clipboard write completes
ClipboardCopied ==
    \E e \in Outstanding("copyToClipboard") :
        \E msg \in {r \in Results(e.c) : ~r.err} : Deliver(e, msg)

ClipboardFailed ==
    \E e \in Outstanding("copyToClipboard") :
        \E msg \in {r \in Results(e.c) : r.err} : Deliver(e, msg)

\* the tick of clearStatusAfter fires
StatusCleared ==
    \E e \in Outstanding("clearStatusAfter") : Deliver(e, clearStatusMsg)

\* the terminal size a resize reports
DetailSize == <<40, 12>>

DetailResize ==
    status = "running" /\ Handle(WindowSizeMsg(DetailSize[1], DetailSize[2]), "WindowSizeMsg")

DetailNext ==
    \/ ClientChanged
    \/ FetchCompleted
    \/ Refresh
    \/ MoveRight
    \/ EnterFilterMode
    \/ FilterChar
    \/ DetailResize
    \/ OpenDetail
    \/ ViewValue
    \/ CopyPlain
    \/ Back
    \/ ValueLoaded
    \/ ValueError
    \/ ClipboardCopied
    \/ ClipboardFailed
    \/ StatusCleared

DetailSpec == DetailInit /\ [][DetailNext]_vars

(***************************************************************************)
(* EmptySpec: the secret list of profile sandbox, whose first page holds   *)
(* no secret.  Remote paging, movement, the filter and resizes, with       *)
(* fetches that succeed or fail.                                           *)
(***************************************************************************)
EmptyInit ==
    /\ m = NewModel(Profiles[4], Regions[1])
    /\ inflight = SetToBag({Entry(ModelInit(NewModel(Profiles[4], Regions[1])), "Init")})
    /\ status = "running"
    /\ issued = {}

EmptyNext ==
    \/ ClientChanged
    \/ FetchCompleted
    \/ FetchError
    \/ Refresh
    \/ NextRemotePage
    \/ PrevRemotePage
    \/ MoveUp
    \/ MoveDown
    \/ MoveLeft
    \/ MoveRight
    \/ NextScreenPage
    \/ PrevScreenPage
    \/ EnterFilterMode
    \/ FilterChar
    \/ FilterBackspace
    \/ DetailResize

EmptySpec == EmptyInit /\ [][EmptyNext]_vars

(***************************************************************************)
(* ClientSpec: switching the profile.  The list is paged, the profile      *)
(* selector is opened, another profile is chosen, and the client           *)
(* initialisation and the list fetches complete in any order.              *)
(***************************************************************************)
OpenProfiles == status = "running" /\ Key("p")

\* the keys of the profile selector screen
SelectorDown ==
    status = "running" /\ m.currentScreen = ScreenProfileSelector /\ Key("down")

\* the profiles the user switches between
SwitchTargets == {"default", "dev"}

ChooseProfile ==
    /\ status = "running" /\ m.currentScreen = ScreenProfileSelector
    /\ SelectedProfile(m) \in SwitchTargets
    /\ Key("enter")

ClientNext ==
    \/ ClientChanged
    \/ FetchCompleted
    \/ NextRemotePage
    \/ PrevRemotePage
    \/ OpenProfiles
    \/ SelectorDown
    \/ ChooseProfile

ClientSpec == Init /\ [][ClientNext]_vars

(***************************************************************************)
(* CursorSpec: the grid of profile prod under moves and resizes that       *)
(* change the number of columns and of rows independently.                 *)
(***************************************************************************)
\* the terminal sizes a resize reports: grids of 3x2, 1x3 and 2x4
CursorSizes == {<<119, 20>>, <<40, 25>>, <<86, 30>>}

CursorResize ==
    \E size \in CursorSizes :
        status = "running" /\ Handle(WindowSizeMsg(size[1], size[2]), "WindowSizeMsg")

CursorNext ==
    \/ ClientChanged
    \/ FetchCompleted
    \/ NextRemotePage
    \/ MoveUp
    \/ MoveDown
    \/ MoveLeft
    \/ MoveRight
    \/ CursorResize

CursorSpec == GridInit /\ [][CursorNext]_vars

(***************************************************************************)
(* LiveSpec: list fetches, secret-value fetches and client initialisation  *)
(* under fair delivery.  Every command runs in its own goroutine and sends *)
(* its message to the event loop, so while the program runs and a command  *)
(* is outstanding a delivery eventually happens.                           *)
(***************************************************************************)
\* the steps of the event loop that handle a command's message
Deliveries ==
    \/ ClientChanged
    \/ ClientFailed
    \/ FetchCompleted
    \/ FetchError
    \/ ValueLoaded
    \/ ValueError

LiveNext ==
    \/ Deliveries
    \/ NextRemotePage
    \/ OpenDetail
    \/ ViewValue
    \/ Back

LiveSpec == Init /\ [][LiveNext]_vars /\ WF_vars(Deliveries)

(***************************************************************************)
(* Vocabulary of the claims.                                               *)
(***************************************************************************)
\* the remote-pagination state of a model value
Pagination(mm) ==
    [currentPage |-> mm.currentPage,
     pageHistory |-> mm.pageHistory,
     secrets     |-> mm.secrets,
     nextToken   |-> mm.nextToken,
     hasMore     |-> mm.hasMore,
     shown       |-> mm.grid.secrets]

\* the navigation state of a grid
Navigation(g) ==
    [cursorRow |-> g.cursorRow, cursorCol |-> g.cursorCol, gridPageIndex |-> g.gridPageIndex]

AtOrigin(g) == g.cursorRow = 0 /\ g.cursorCol = 0 /\ g.gridPageIndex = 0

\* the outstanding list fetches
ListFetches == Outstanding("loadSecrets")

OnList == status = "running" /\ m.currentScreen = ScreenSecretList

\* a page is cached right after the current one
CachedNext(mm) == mm.currentPage + 1 < Len(mm.pageHistory)

\* the message of a failed / a successful list fetch
FetchFailed == secretsLoadedMsg(<< >>, NoToken, TRUE)

FetchOk(c) ==
    secretsLoadedMsg(ListSecrets(c.client, c.nextToken).secrets,
                     ListSecrets(c.client, c.nextToken).nextToken, FALSE)

CanSucceed(c) ==
    c.cmd = "loadSecrets" /\ c.client # NilClient /\ c.nextToken \in DOMAIN SourcePages[c.client.profile]

(***************************************************************************)
(* C1.  Once a page is cached and no list fetch is outstanding,            *)
(* 0 <= currentPage < len(pageHistory); and PrevRemotePage ('b') never     *)
(* reads pageHistory at an index outside the cached sequence.              *)
(***************************************************************************)
C1_CurrentPageIndexesCache ==
    /\ status # "panicked"
    /\ (Len(m.pageHistory) > 0 /\ ListFetches = {})
          => (0 <= m.currentPage /\ m.currentPage < Len(m.pageHistory))

(***************************************************************************)
(* C2.  When 'n' needs a fetch (no cached next page, continuation token    *)
(* present) and that fetch fails, the pagination state is what it was      *)
(* before the key: currentPage, pageHistory, the displayed items,          *)
(* nextToken and hasMore; only an error message is reported.               *)
(***************************************************************************)
C2_FailedNextLeavesStateUnchanged ==
    (OnList /\ m.hasMore /\ m.nextToken # NoToken /\ ~CachedNext(m))
        => LET pressed == Update(m, KeyMsg("n"))
               failed  == Update(pressed.model, FetchFailed)
           IN  /\ pressed.cmd = loadSecrets(m.awsClient, m.nextToken)
               /\ Pagination(failed.model) = Pagination(m)
               /\ failed.model.errorMessage # ""

(***************************************************************************)
(* C3.  'n' with a page cached at currentPage+1 dispatches no fetch and    *)
(* makes that cached page the current one.                                 *)
(***************************************************************************)
C3_NextServedFromCache ==
    (OnList /\ CachedNext(m))
        => LET r    == Update(m, KeyMsg("n"))
               page == m.pageHistory[m.currentPage + 2]
           IN  /\ r.cmd = NoCmd
               /\ r.model.currentPage = m.currentPage + 1
               /\ r.model.pageHistory = m.pageHistory
               /\ r.model.secrets = page.secrets
               /\ r.model.nextToken = page.nextToken
               /\ r.model.grid.secrets = page.secrets

(***************************************************************************)
(* C4.  'b' never dispatches a fetch: with currentPage > 0 it decrements   *)
(* currentPage and shows the cached page at the new index; with            *)
(* currentPage = 0 it changes nothing at all.                              *)
(***************************************************************************)
C4_PrevShowsCachedPage ==
    OnList
        => LET r == Update(m, KeyMsg("b"))
           IN  IF m.currentPage > 0
               THEN /\ r.cmd = NoCmd
                    /\ r.model.currentPage = m.currentPage - 1
                    /\ r.model.currentPage < Len(m.pageHistory)
                    /\ r.model.pageHistory = m.pageHistory
                    /\ r.model.secrets = m.pageHistory[r.model.currentPage + 1].secrets
                    /\ r.model.nextToken = m.pageHistory[r.model.currentPage + 1].nextToken
                    /\ r.model.grid.secrets = r.model.secrets
               ELSE r = [model |-> m, cmd |-> NoCmd]

(***************************************************************************)
(* C5.  After a Refresh ('r') and the successful completion of the fetch   *)
(* it dispatched, currentPage = 0, pageHistory holds exactly the freshly   *)
(* fetched page, and the grid is at cursor (0,0), screen page 0.           *)
(***************************************************************************)
C5_RefreshResets ==
    \A e \in ListFetches :
        (status = "running" /\ e.by = "r" /\ CanSucceed(e.c))
            => LET msg == FetchOk(e.c)
                   r   == Update(m, msg)
               IN  /\ r.model.currentPage = 0
                   /\ r.model.pageHistory = <<secretPage(msg.secrets, msg.nextToken)>>
                   /\ AtOrigin(r.model.grid)

(***************************************************************************)
(* C6.  After a Refresh whose fetch fails, pageHistory is empty, an error  *)
(* message is set, and no current remote page is presented: the items of   *)
(* the pre-refresh page are no longer shown and hasMore is false.          *)
(***************************************************************************)
C6_FailedRefreshShowsNoPage ==
    OnList
        => LET pressed == Update(m, KeyMsg("r"))
               failed  == Update(pressed.model, FetchFailed)
           IN  /\ failed.model.pageHistory = << >>
               /\ failed.model.errorMessage # ""
               /\ failed.model.secrets = << >>
               /\ failed.model.grid.secrets = << >>
               /\ ~failed.model.hasMore

(***************************************************************************)
(* C7.  Whenever no list fetch is outstanding, hasMore is true exactly     *)
(* when a page is cached at currentPage+1 or the page at currentPage has a *)
(* continuation token.                                                     *)
(***************************************************************************)
HasNext(mm) ==
    \/ CachedNext(mm)
    \/ /\ mm.currentPage < Len(mm.pageHistory)
       /\ mm.pageHistory[mm.currentPage + 1].nextToken # NoToken

C7_HasMoreIsHasNext ==
    (status = "running" /\ ListFetches = {}) => (m.hasMore <=> HasNext(m))

(***************************************************************************)
(* C8.  No remote fetch is duplicated: between two Refreshes the list call *)
(* is never dispatched twice with the same continuation token (the         *)
(* initial no-token request included), and no two entries of pageHistory   *)
(* come from the same token.  (The pages of the Source differ pairwise, so *)
(* two equal entries are two results of the same token.)                   *)
(***************************************************************************)
\* the list calls to the Source that this step dispatches
Dispatched ==
    {e \in BagToSet(inflight') :
        /\ e.c.cmd = "loadSecrets" /\ e.c.client # NilClient
        /\ CopiesIn(e, inflight') > CopiesIn(e, inflight)}

C8_NoDuplicateFetch ==
    [][/\ \A e \in Dispatched : e.by # "r" => e.c.nextToken \notin issued
       /\ \A i, j \in 1..Len(m'.pageHistory) :
              i # j => m'.pageHistory[i] # m'.pageHistory[j]]_vars

(***************************************************************************)
(* C9.  Cache entries are created only by a successful fetch completion,   *)
(* appended at the end, and removed only by Refresh: in every step that is *)
(* not a Refresh the old pageHistory is a prefix of the new one, and it    *)
(* grows by at most the one page a successful fetch delivered.             *)
(***************************************************************************)
IsPrefix(s, t) == Len(s) <= Len(t) /\ SubSeq(t, 1, Len(s)) = s

C9_CacheEntriesStable ==
    [][\/ (m.currentScreen = ScreenSecretList /\ Refresh)
       \/ /\ IsPrefix(m.pageHistory, m'.pageHistory)
          /\ m'.pageHistory # m.pageHistory
                => (FetchCompleted /\ Len(m'.pageHistory) = Len(m.pageHistory) + 1)]_vars

(***************************************************************************)
(* C10.  Outside filter mode the six movement keys change only cursorRow,  *)
(* cursorCol and the screen-page index: the remote-page cache, the current *)
(* page, nextToken, hasMore, the items, the filter, filteredSecrets and    *)
(* the grid shape are unchanged and no command is dispatched.              *)
(***************************************************************************)
MoveKeys == {"up", "k", "down", "j", "left", "h", "right", "l", " ", "pgdown", "pgup"}

C10_MovesTouchOnlyNavigation ==
    (OnList /\ ~m.grid.filtering)
        => \A key \in MoveKeys :
               LET r == Update(m, KeyMsg(key))
               IN  /\ r.cmd = NoCmd
                   /\ r.model = [m EXCEPT !.grid =
                                     [m.grid EXCEPT !.cursorRow     = r.model.grid.cursorRow,
                                                    !.cursorCol     = r.model.grid.cursorCol,
                                                    !.gridPageIndex = r.model.grid.gridPageIndex]]

\* a second remote page is shown with the cursor moved off the origin, a fetch is
\* outstanding, and the movement keys still move the cursor
C10_Witness ==
    /\ OnList /\ ~m.grid.filtering
    /\ m.currentPage = 1 /\ Len(m.pageHistory) = 2 /\ m.hasMore
    /\ ListFetches # {}
    /\ ~AtOrigin(m.grid)
    /\ \E key \in MoveKeys : Navigation(Update(m, KeyMsg(key)).model.grid) # Navigation(m.grid)

(***************************************************************************)
(* Vocabulary of the claims about the grid.                                *)
(***************************************************************************)
\* name contains query, compared character by character without regard to case
Matches(name, query) ==
    \E i \in 0..(Len(name) - Len(query)) :
        \A j \in 1..Len(query) : LowerChar(name[i + j]) = LowerChar(query[j])

\* the filter's contract: the items whose name matches, in their order
Apply(items, query) == SelectSeq(items, LAMBDA name : Matches(name, query))

\* the screen pages needed for count items at capacity items per page
ScreenPages(count, capacity) ==
    IF count = 0 THEN 1
    ELSE CHOOSE n \in 1..count : (n - 1) * capacity < count /\ count <= n * capacity

capacity(g) == g.numCols * g.numRows

\* the grid shows items: filtered by the grid's query, first screen page, cursor home
ShowsFromStart(g, items) ==
    /\ g.secrets = items
    /\ g.filteredSecrets = Apply(items, g.filterQuery)
    /\ g.totalGridPages = ScreenPages(Len(g.filteredSecrets), capacity(g))
    /\ AtOrigin(g)

(***************************************************************************)
(* C11.  Whenever the current remote page changes ('n' served from the     *)
(* cache, 'b' with currentPage > 0, or a successful fetch completion), the *)
(* grid afterwards is on screen page 0 with the cursor at (0,0), its       *)
(* filteredSecrets is the current query applied to the new page's items,   *)
(* and totalGridPages is recomputed for that filtered set.                 *)
(***************************************************************************)
C11_RemotePageChangeResetsGrid ==
    OnList =>
        /\ (m.hasMore /\ CachedNext(m)) =>
               LET r == Update(m, KeyMsg("n")).model
               IN  /\ r.grid.filterQuery = m.grid.filterQuery
                   /\ ShowsFromStart(r.grid, m.pageHistory[m.currentPage + 2].secrets)
        /\ (m.currentPage > 0 /\ m.currentPage - 1 < Len(m.pageHistory)) =>
               LET r == Update(m, KeyMsg("b")).model
               IN  /\ r.grid.filterQuery = m.grid.filterQuery
                   /\ ShowsFromStart(r.grid, m.pageHistory[m.currentPage].secrets)
        /\ \A e \in ListFetches :
               CanSucceed(e.c) =>
                   LET r == Update(m, FetchOk(e.c)).model
                   IN  /\ r.grid.filterQuery = m.grid.filterQuery
                       /\ ShowsFromStart(r.grid, ListSecrets(e.c.client, e.c.nextToken).secrets)

\* with a query typed, a cached next page that the query narrows is at hand, and
\* so is a fetch that can succeed
C11_Witness ==
    /\ OnList /\ m.grid.filterQuery # << >>
    /\ m.hasMore /\ CachedNext(m)
    /\ \E e \in ListFetches : CanSucceed(e.c)
    /\ Apply(m.pageHistory[m.currentPage + 2].secrets, m.grid.filterQuery)
           # m.pageHistory[m.currentPage + 2].secrets

(***************************************************************************)
(* Vocabulary of the claims about the layout.                              *)
(***************************************************************************)
\* floor(a / b) for b > 0
Floor(a, b) == a \div b

\* the width each of c columns gets in a viewport of the given width
PerCell(width, c) == Floor(width - (c - 1) * CellSpacing, c)

\* the candidate column counts whose per-cell width is within the bounds
Fitting(width) ==
    {c \in 1..Floor(width, MinCellWidth + CellSpacing) :
        MinCellWidth <= PerCell(width, c) /\ PerCell(width, c) <= MaxCellWidth}

Largest(S) == CHOOSE x \in S : \A y \in S : y <= x

(***************************************************************************)
(* C12.  For every viewport (width, height): numRows is                    *)
(* max(1, floor(height / 5)); numCols is the largest c in                  *)
(* 1..floor(width / 37) with 35 <= floor((width - (c-1)*2) / c) <= 60 and  *)
(* cellWidth is that quotient; (80, 20) gives 2 columns of width 39 and 4  *)
(* rows.                                                                   *)
(***************************************************************************)
C12_LayoutFormula ==
    LET g == m.grid
    IN  /\ g.numRows = (IF Floor(g.height, DefaultCellHeight + 1) > 1
                        THEN Floor(g.height, DefaultCellHeight + 1) ELSE 1)
        /\ Fitting(g.width) # {} =>
               /\ g.numCols = Largest(Fitting(g.width))
               /\ g.cellWidth = PerCell(g.width, g.numCols)
        /\ (g.width = 80 /\ g.height = 20) =>
               (g.numCols = 2 /\ g.cellWidth = 39 /\ g.numRows = 4)

\* a viewport in which two and three columns both fit, and three are taken
C12_Witness ==
    /\ m.grid.width = 113 /\ m.grid.height = 11
    /\ {2, 3} \subseteq Fitting(m.grid.width)
    /\ m.grid.numCols = 3 /\ m.grid.cellWidth = 36 /\ m.grid.numRows = 2

(***************************************************************************)
(* C13.  When no candidate column count yields a per-cell width within     *)
(* [MinCellWidth, MaxCellWidth], the layout is numCols = 1 and             *)
(* cellWidth = max(MinCellWidth, width).                                   *)
(***************************************************************************)
C13_FallbackWidth ==
    Fitting(m.grid.width) = {} =>
        /\ m.grid.numCols = 1
        /\ m.grid.cellWidth = (IF m.grid.width > MinCellWidth THEN m.grid.width ELSE MinCellWidth)

(***************************************************************************)
(* C14.  Degenerate viewports never produce an error or an invalid shape:  *)
(* a viewport whose width or height is <= 0 or smaller than one cell gets  *)
(* the minimal shape, numCols = 1 and numRows = 1.                         *)
(***************************************************************************)
DegenerateWidth(g) == g.width <= 0 \/ g.width < MinCellWidth

DegenerateHeight(g) == g.height <= 0 \/ g.height < DefaultCellHeight

C14_DegenerateIsMinimal ==
    (DegenerateWidth(m.grid) \/ DegenerateHeight(m.grid))
        => (status = "running" /\ m.grid.numCols = 1 /\ m.grid.numRows = 1)

\* C14 as amended: each dimension is minimal on its own.  A degenerate width
\* gives one column of MinCellWidth, a degenerate height gives one row, and
\* the other dimension is laid out as usual; the shape is always valid.
C14_DegenerateIsMinimalPerDimension ==
    /\ status = "running"
    /\ m.grid.numCols >= 1 /\ m.grid.numRows >= 1
    /\ DegenerateWidth(m.grid) => (m.grid.numCols = 1 /\ m.grid.cellWidth = MinCellWidth)
    /\ DegenerateHeight(m.grid) => m.grid.numRows = 1

\* a small window: the content width is negative and the height is below one cell
C14_Witness ==
    /\ m.grid.width < 0 /\ m.grid.height >= 0 /\ m.grid.height < DefaultCellHeight
    /\ m.grid.numCols = 1 /\ m.grid.numRows = 1

(***************************************************************************)
(* C15.  In every reachable state, for every sequence of resizes:          *)
(* numCols >= 1, numRows >= 1, the capacity numCols * numRows >= 1, and    *)
(* MinCellWidth <= cellWidth <= MaxCellWidth whenever the viewport width   *)
(* is at least MinCellWidth.                                               *)
(***************************************************************************)
C15_ShapeWithinBounds ==
    /\ m.grid.numCols >= 1
    /\ m.grid.numRows >= 1
    /\ capacity(m.grid) >= 1
    /\ m.grid.width >= MinCellWidth =>
           (MinCellWidth <= m.grid.cellWidth /\ m.grid.cellWidth <= MaxCellWidth)

\* a viewport too wide for one cell and too narrow for two
C15_Witness ==
    /\ m.grid.width > MaxCellWidth
    /\ m.grid.width < 2 * MinCellWidth + CellSpacing
    /\ m.grid.numCols = 1
    /\ m.grid.height < 0

(***************************************************************************)
(* C16.  In every reachable state filteredSecrets is the current query     *)
(* applied to the items of the current remote page: the items whose name   *)
(* contains the query without regard to case, in their order; all of them  *)
(* for the empty query, none when nothing matches.                         *)
(***************************************************************************)
C16_FilteredIsQueryApplied ==
    /\ m.grid.secrets = m.secrets
    /\ m.grid.filteredSecrets = Apply(m.secrets, m.grid.filterQuery)
    /\ m.grid.filterQuery = << >> => m.grid.filteredSecrets = m.secrets

\* a query in upper case keeps some items, spelt in either case, and drops others
C16_Witness ==
    /\ m.grid.filterQuery = <<"A">>
    /\ Len(m.grid.filteredSecrets) > 0
    /\ Len(m.grid.filteredSecrets) < Len(m.secrets)
    /\ \E i \in 1..Len(m.grid.filteredSecrets) :
           \A j \in 1..Len(m.grid.filteredSecrets[i]) : m.grid.filteredSecrets[i][j] # "A"

(***************************************************************************)
(* C17.  Every change of the filter query (a character appended, a         *)
(* character removed by backspace from a non-empty query, the query        *)
(* cleared) leaves the grid at cursor (0,0), screen page 0, with           *)
(* filteredSecrets and totalGridPages recomputed for the new query.        *)
(***************************************************************************)
\* the grid shows its items under query from the start
Requeried(g, old, query) ==
    /\ g.filterQuery = query
    /\ g.secrets = old.secrets
    /\ ShowsFromStart(g, old.secrets)

C17_QueryChangeResetsGrid ==
    (OnList /\ m.grid.filtering) =>
        LET g == m.grid
        IN  /\ \A c \in FilterChars \cup {"/"} :
                   Requeried(GridUpdate(g, c), g, Append(g.filterQuery, c))
            /\ g.filterQuery # << >> =>
                   Requeried(GridUpdate(g, "backspace"), g,
                             SubSeq(g.filterQuery, 1, Len(g.filterQuery) - 1))
            /\ Requeried(GridUpdate(g, "esc"), g, << >>)

\* filter mode entered on the second screen page with the cursor moved
C17_Witness ==
    /\ OnList /\ m.grid.filtering
    /\ m.grid.gridPageIndex > 0 /\ m.grid.cursorCol > 0
    /\ Len(GridUpdate(m.grid, "A").filteredSecrets) < Len(m.grid.filteredSecrets)

(***************************************************************************)
(* C18.  In every reachable state totalGridPages is                        *)
(* max(1, ceil(len(filteredSecrets) / (numCols * numRows))) and            *)
(* 0 <= gridPageIndex < totalGridPages.                                    *)
(***************************************************************************)
C18_ScreenPageWithinRange ==
    /\ m.grid.totalGridPages = ScreenPages(Len(m.grid.filteredSecrets), capacity(m.grid))
    /\ 0 <= m.grid.gridPageIndex
    /\ m.grid.gridPageIndex < m.grid.totalGridPages

\* the last of several screen pages is shown
C18_Witness ==
    /\ m.grid.totalGridPages > 2
    /\ m.grid.gridPageIndex = m.grid.totalGridPages - 1

(***************************************************************************)
(* C19.  In every reachable state the flat index                           *)
(* cursorRow * numCols + cursorCol is a valid index into the visible items *)
(* of the current screen page, or the cursor is at (0,0); SelectedSecret   *)
(* is an item of the current screen page or none.                          *)
(***************************************************************************)
\* the number of items on the current screen page
OnScreen(g) ==
    LET rest == Len(g.filteredSecrets) - g.gridPageIndex * capacity(g)
    IN  IF rest <= 0 THEN 0 ELSE IF rest < capacity(g) THEN rest ELSE capacity(g)

C19_CursorOnItem ==
    LET g    == m.grid
        flat == g.cursorRow * g.numCols + g.cursorCol
    IN  /\ \/ (0 <= flat /\ flat < OnScreen(g))
           \/ (g.cursorRow = 0 /\ g.cursorCol = 0)
        /\ SelectedSecret(g) # NoSecret =>
               \E i \in 1..OnScreen(g) :
                   SelectedSecret(g) = g.filteredSecrets[g.gridPageIndex * capacity(g) + i]

\* three columns by two rows over five items, the cursor on the last item
C19_Witness ==
    /\ m.grid.numCols = 3 /\ m.grid.numRows = 2 /\ Len(m.grid.filteredSecrets) = 5
    /\ m.grid.cursorRow = 1 /\ m.grid.cursorCol = 1
    /\ SelectedSecret(m.grid) = m.grid.filteredSecrets[5]
    /\ moveRight(m.grid) = m.grid

(***************************************************************************)
(* C20.  SelectedSecret is                                                 *)
(* filteredSecrets[gridPageIndex * capacity + cursorRow * numCols +        *)
(* cursorCol] when cursorRow * numCols + cursorCol is less than the number *)
(* of items on the current screen page, and none otherwise; with 12 items, *)
(* capacity 6 and no continuation token, one NextScreenPage leaves the     *)
(* cursor at (0,0) and SelectedSecret is item index 6.                     *)
(***************************************************************************)
C20_SelectedIsItemUnderCursor ==
    LET g    == m.grid
        flat == g.cursorRow * g.numCols + g.cursorCol
    IN  /\ SelectedSecret(g) =
               (IF 0 <= flat /\ flat < OnScreen(g)
                THEN g.filteredSecrets[g.gridPageIndex * capacity(g) + flat + 1]
                ELSE NoSecret)
        /\ (/\ OnList /\ ~g.filtering /\ ~m.hasMore
            /\ Len(g.filteredSecrets) = 12 /\ capacity(g) = 6 /\ g.gridPageIndex = 0)
               => LET r == Update(m, KeyMsg("pgdown")).model.grid
                  IN  /\ g.totalGridPages = 2
                      /\ r.cursorRow = 0 /\ r.cursorCol = 0 /\ r.gridPageIndex = 1
                      /\ SelectedSecret(r) = m.secrets[6 + 1]

\* twelve items at capacity six, the cursor moved: NextScreenPage is about to act
C20_Witness ==
    /\ OnList /\ ~m.grid.filtering /\ ~m.hasMore
    /\ Len(m.grid.filteredSecrets) = 12 /\ capacity(m.grid) = 6 /\ m.grid.gridPageIndex = 0
    /\ m.grid.cursorRow = 1 /\ m.grid.cursorCol = 2
    /\ SelectedSecret(m.grid) = m.secrets[6]

(***************************************************************************)
(* Vocabulary of the claims about movement.                                *)
(***************************************************************************)
\* the grid after a key handled by the list screen outside filter mode
After(key) == Update(m, KeyMsg(key)).model.grid

Navigating == OnList /\ ~m.grid.filtering

\* g with the navigation state (row, col, page)
At(g, row, col, page) ==
    [g EXCEPT !.cursorRow = row, !.cursorCol = col, !.gridPageIndex = page]

(***************************************************************************)
(* C21.  MoveDown: if cursorRow+1 < numRows and                            *)
(* (cursorRow+1)*numCols+cursorCol is within the current screen page's     *)
(* item count, only cursorRow is incremented; otherwise, if                *)
(* gridPageIndex+1 < totalGridPages, gridPageIndex is incremented,         *)
(* cursorRow becomes 0 and cursorCol is left unchanged; otherwise nothing  *)
(* changes.                                                                *)
(***************************************************************************)
C21_MoveDown ==
    Navigating =>
        LET g == m.grid
        IN  After("down") =
                IF /\ g.cursorRow + 1 < g.numRows
                   /\ (g.cursorRow + 1) * g.numCols + g.cursorCol < OnScreen(g)
                THEN At(g, g.cursorRow + 1, g.cursorCol, g.gridPageIndex)
                ELSE IF g.gridPageIndex + 1 < g.totalGridPages
                     THEN At(g, 0, g.cursorCol, g.gridPageIndex + 1)
                     ELSE g

(***************************************************************************)
(* C22.  MoveUp: if cursorRow > 0 it decrements cursorRow; otherwise, if   *)
(* gridPageIndex > 0, it moves to the previous screen page with            *)
(* cursorRow = numRows-1 and a cursor on an item; otherwise nothing        *)
(* changes.  It mirrors MoveDown: whenever MoveDown changes the state,     *)
(* MoveDown then MoveUp restores (cursorRow, cursorCol, gridPageIndex).    *)
(***************************************************************************)
C22_MoveUpMirrorsMoveDown ==
    Navigating =>
        LET g    == m.grid
            up   == After("up")
            down == After("down")
        IN  /\ IF g.cursorRow > 0
               THEN up = At(g, g.cursorRow - 1, g.cursorCol, g.gridPageIndex)
               ELSE IF g.gridPageIndex > 0
                    THEN /\ up = At(g, g.numRows - 1, up.cursorCol, g.gridPageIndex - 1)
                         /\ SelectedSecret(up) # NoSecret
                    ELSE up = g
            /\ down # g => GridUpdate(down, "up") = g

(***************************************************************************)
(* C23.  MoveRight increments cursorCol exactly when the resulting flat    *)
(* index cursorRow*numCols+cursorCol+1 is within the current screen page's *)
(* item count, and is a no-op otherwise; MoveLeft decrements cursorCol     *)
(* exactly when cursorCol > 0; neither changes cursorRow or gridPageIndex. *)
(***************************************************************************)
MoveLeftAsStated ==
    LET g == m.grid
    IN  After("left") = IF g.cursorCol > 0
                        THEN At(g, g.cursorRow, g.cursorCol - 1, g.gridPageIndex)
                        ELSE g

C23_MoveRightWithinItems ==
    Navigating =>
        LET g == m.grid
        IN  /\ After("right") =
                   IF g.cursorRow * g.numCols + g.cursorCol + 1 < OnScreen(g)
                   THEN At(g, g.cursorRow, g.cursorCol + 1, g.gridPageIndex)
                   ELSE g
            /\ MoveLeftAsStated

\* C23 as amended: MoveRight also stays inside the row, cursorCol+1 < numCols
C23_MoveRightWithinRowAndItems ==
    Navigating =>
        LET g == m.grid
        IN  /\ After("right") =
                   IF /\ g.cursorCol + 1 < g.numCols
                      /\ g.cursorRow * g.numCols + g.cursorCol + 1 < OnScreen(g)
                   THEN At(g, g.cursorRow, g.cursorCol + 1, g.gridPageIndex)
                   ELSE g
            /\ MoveLeftAsStated

\* the cursor is at the end of a row with items below it, and away from column 0
C23_Witness ==
    /\ Navigating
    /\ m.grid.numCols = 3 /\ m.grid.cursorCol = 2 /\ m.grid.cursorRow = 0
    /\ m.grid.cursorRow * m.grid.numCols + m.grid.cursorCol + 1 < OnScreen(m.grid)
    /\ After("right") = m.grid
    /\ After("left") # m.grid

(***************************************************************************)
(* C24.  After NextScreenPage (PrevScreenPage) from any state,             *)
(* gridPageIndex is the old index plus one (minus one) clamped to          *)
(* [0, totalGridPages), and the cursor is at (0,0), also when the jump was *)
(* clamped at the last (first) screen page.                                *)
(***************************************************************************)
C24_ScreenPageJump ==
    Navigating =>
        LET g == m.grid
        IN  /\ After("pgdown") =
                   At(g, 0, 0, IF g.gridPageIndex + 1 < g.totalGridPages
                               THEN g.gridPageIndex + 1 ELSE g.totalGridPages - 1)
            /\ After("pgup") =
                   At(g, 0, 0, IF g.gridPageIndex > 0 THEN g.gridPageIndex - 1 ELSE 0)

(***************************************************************************)
(* C25.  A Resize leaves the filter query, the remote page's items,        *)
(* filteredSecrets and the remote-page cache unchanged; it sets            *)
(* gridPageIndex to min(old gridPageIndex, new totalGridPages - 1); and it *)
(* keeps (cursorRow, cursorCol) when cursorRow*newNumCols+cursorCol is a   *)
(* valid index into the new visible slice, resetting it to (0,0)           *)
(* otherwise.                                                              *)
(***************************************************************************)
C25_ResizeKeepsContent ==
    OnList =>
        \A size \in GridSizes :
            LET r    == Update(m, WindowSizeMsg(size[1], size[2]))
                g    == m.grid
                h    == r.model.grid
                page == IF g.gridPageIndex < h.totalGridPages - 1
                        THEN g.gridPageIndex ELSE h.totalGridPages - 1
                kept == g.cursorRow * h.numCols + g.cursorCol
                            < OnScreen([h EXCEPT !.gridPageIndex = page])
            IN  /\ r.cmd = NoCmd
                /\ r.model = [m EXCEPT !.grid = h]
                /\ h.filterQuery = g.filterQuery /\ h.filtering = g.filtering
                /\ h.secrets = g.secrets /\ h.filteredSecrets = g.filteredSecrets
                /\ h.totalGridPages = ScreenPages(Len(h.filteredSecrets), capacity(h))
                /\ h.gridPageIndex = page
                /\ h.cursorRow = (IF kept THEN g.cursorRow ELSE 0)
                /\ h.cursorCol = (IF kept THEN g.cursorCol ELSE 0)

\* on a late screen page with the cursor moved: one resize clamps the screen page
\* and keeps the cursor, another keeps the screen page and resets the cursor
C25_Witness ==
    /\ OnList /\ m.grid.gridPageIndex > 1 /\ m.grid.cursorCol > 0
    /\ \E size \in GridSizes :
           LET h == Update(m, WindowSizeMsg(size[1], size[2])).model.grid
           IN  /\ h.gridPageIndex < m.grid.gridPageIndex
               /\ h.cursorCol = m.grid.cursorCol
    /\ \E size \in GridSizes :
           LET h == Update(m, WindowSizeMsg(size[1], size[2])).model.grid
           IN  /\ h.numCols # m.grid.numCols
               /\ h.gridPageIndex = m.grid.gridPageIndex
               /\ h.cursorCol = 0

(***************************************************************************)
(* C26.  No in-flight list fetch is cancelled or discarded: the response   *)
(* of a fetch dispatched before a Refresh is applied when it arrives,      *)
(* against the currentPage and pageHistory of that moment; arriving after  *)
(* the refresh's own response it replaces the cached page 0 and the        *)
(* displayed items.                                                        *)
(***************************************************************************)
\* the page a successful response of the fetch c carries
Response(c) ==
    secretPage(ListSecrets(c.client, c.nextToken).secrets,
               ListSecrets(c.client, c.nextToken).nextToken)

C26_StaleResponseApplied ==
    [][\A e \in ListFetches :
           (CanSucceed(e.c) /\ Deliver(e, FetchOk(e.c))) =>
               /\ m'.secrets = Response(e.c).secrets
               /\ m'.nextToken = Response(e.c).nextToken
               /\ m'.grid.secrets = Response(e.c).secrets
               /\ m'.pageHistory =
                      IF m.currentPage < Len(m.pageHistory)
                      THEN [m.pageHistory EXCEPT ![m.currentPage + 1] = Response(e.c)]
                      ELSE Append(m.pageHistory, Response(e.c))]_vars

\* since the last Refresh only the no-token fetch was dispatched, nothing is
\* outstanding, and page 0 of the cache and the display hold the page of token t1
C26_Witness ==
    /\ status = "running" /\ ListFetches = {} /\ issued = {NoToken}
    /\ m.currentPage = 0 /\ Len(m.pageHistory) = 1
    /\ m.pageHistory[1] = Response(loadSecrets(m.awsClient, "t1"))
    /\ m.secrets = m.pageHistory[1].secrets

(***************************************************************************)
(* Filter mode on the secret-list screen.                                  *)
(***************************************************************************)
Filtering == OnList /\ m.grid.filtering

\* the characters a user can type, among them the list screen's own keys
TypedChars == {"A", "x", "q", "r", "n", "b", "?", "p", "g", "/"}

(***************************************************************************)
(* C27.  In filter mode on the secret-list screen the esc key exits filter *)
(* mode: the grid is no longer filtering, the query is empty, the filtered *)
(* items are all the items of the current remote page, and the application *)
(* keeps running on the list screen.                                       *)
(***************************************************************************)
C27_EscExitsFilterMode ==
    Filtering =>
        LET r == Update(m, KeyMsg("esc"))
        IN  /\ r.cmd = NoCmd
            /\ r.model.currentScreen = ScreenSecretList
            /\ ~r.model.grid.filtering
            /\ r.model.grid.filterQuery = << >>
            /\ r.model.grid.filteredSecrets = m.secrets

(***************************************************************************)
(* C28.  In filter mode on the secret-list screen a single-character key   *)
(* is appended to the query and does nothing else: no command is           *)
(* dispatched, and nothing but the grid's query, match list, shape and     *)
(* cursor changes (no page change, no other screen, no help, no quit).     *)
(***************************************************************************)
C28_TypedCharOnlyExtendsQuery ==
    Filtering =>
        \A c \in TypedChars :
            LET r == Update(m, KeyMsg(c))
            IN  /\ r.cmd = NoCmd
                /\ r.model.grid.filterQuery = Append(m.grid.filterQuery, c)
                /\ r.model = [m EXCEPT !.grid = r.model.grid]

(***************************************************************************)
(* The detail screen and secret values.                                    *)
(***************************************************************************)
OnDetail == status = "running" /\ m.currentScreen = ScreenSecretDetail

\* the commands outstanding after the step and not before it
NewlyDispatched ==
    {e \in BagToSet(inflight') : CopiesIn(e, inflight') > CopiesIn(e, inflight)}

\* every message Update can be handed in the current state: any key, a resize,
\* and any completion of any command outstanding
Keys == NamedKeys \cup TypedChars \cup {"v", "c", "j", "k", "h", "l"}

Inputs ==
    {KeyMsg(k) : k \in Keys}
        \cup {WindowSizeMsg(size[1], size[2]) : size \in GridSizes}
        \cup UNION {Results(e.c) : e \in BagToSet(inflight)}

(***************************************************************************)
(* C29.  Secret values are fetched on demand only: Update returns a        *)
(* secret-value request for no message but the 'v' key on the detail       *)
(* screen with a selected secret, and every secret-value request a step    *)
(* dispatches is the one that 'v' key returned, for the selected secret.   *)
(* No list fetch, navigation, resize, filter, screen change or completion  *)
(* dispatches one.                                                         *)
(***************************************************************************)
C29_ValueFetchedOnlyOnDemand ==
    [][/\ \A msg \in Inputs :
              Update(m, msg).cmd.cmd = "loadSecretValue" =>
                  /\ msg = KeyMsg("v")
                  /\ m.currentScreen = ScreenSecretDetail
                  /\ SelectedSecret(m.grid) # NoSecret
       /\ \A e \in NewlyDispatched :
              e.c.cmd = "loadSecretValue" =>
                  /\ e.by = "v"
                  /\ m.currentScreen = ScreenSecretDetail
                  /\ SelectedSecret(m.grid) # NoSecret
                  /\ e.c = loadSecretValue(m.awsClient, SelectedSecret(m.grid))
                  /\ m' = [m EXCEPT !.loading = TRUE]]_vars

\* on the detail screen, the value of the selected secret has been requested and
\* a list fetch is outstanding as well
C29_Witness ==
    /\ OnDetail
    /\ SelectedSecret(m.grid) # NoSecret
    /\ Entry(loadSecretValue(m.awsClient, SelectedSecret(m.grid)), "v") \in BagToSet(inflight)
    /\ ListFetches # {}

(***************************************************************************)
(* C30.  Secret values are cleared when the detail screen is left: in      *)
(* every reachable state whose screen is not the detail screen,            *)
(* secretValue is empty.                                                   *)
(***************************************************************************)
C30_ValueClearedOffDetail ==
    m.currentScreen # ScreenSecretDetail => m.secretValue = << >>

(***************************************************************************)
(* C31.  An empty result is a valid state, not an error.  A list fetch     *)
(* whose listing holds no secret delivers a successful response, and       *)
(* Update stores it as the cached page of the current index, shows it and  *)
(* clears the error message.  When the filtered set is empty (no match, or *)
(* an empty remote page) the grid has one screen page, index 0, no visible *)
(* item and no selected secret, and every move and screen-page key (in     *)
(* filter mode the arrow and page keys; the letters are typed there), and  *)
(* every move function of the grid, leaves model and grid unchanged.       *)
(***************************************************************************)
C31_EmptyResultIsValid ==
    /\ \A e \in ListFetches :
           (CanSucceed(e.c) /\ Response(e.c).secrets = << >>) =>
               /\ \E msg \in Results(e.c) : ~msg.err
               /\ \A msg \in {r \in Results(e.c) : ~r.err} :
                      LET r == Update(m, msg)
                          i == IF m.currentPage < Len(m.pageHistory)
                               THEN m.currentPage + 1
                               ELSE Len(m.pageHistory) + 1
                      IN  /\ r.cmd = NoCmd
                          /\ r.model.errorMessage = ""
                          /\ ~r.model.loading
                          /\ r.model.secrets = << >>
                          /\ r.model.grid.filteredSecrets = << >>
                          /\ Len(r.model.pageHistory) = max(i, Len(m.pageHistory))
                          /\ r.model.pageHistory[i] = Response(e.c)
    /\ (OnList /\ m.grid.filteredSecrets = << >>) =>
           /\ m.grid.totalGridPages = 1
           /\ m.grid.gridPageIndex = 0
           /\ getVisibleSecrets(m.grid) = << >>
           /\ SelectedSecret(m.grid) = NoSecret
           /\ \A key \in (IF m.grid.filtering THEN MoveKeys \cap NamedKeys ELSE MoveKeys) :
                  Update(m, KeyMsg(key)) = [model |-> m, cmd |-> NoCmd]
           /\ moveUp(m.grid) = m.grid /\ moveDown(m.grid) = m.grid
           /\ moveLeft(m.grid) = m.grid /\ moveRight(m.grid) = m.grid
           /\ nextGridPage(m.grid) = m.grid /\ prevGridPage(m.grid) = m.grid

\* an error is shown, the query matches none of the page's secrets, and a fetch
\* whose listing is empty is outstanding
C31_Witness ==
    /\ OnList
    /\ m.errorMessage # ""
    /\ m.secrets # << >> /\ m.grid.filterQuery # << >> /\ m.grid.filteredSecrets = << >>
    /\ \E e \in ListFetches : CanSucceed(e.c) /\ Response(e.c).secrets = << >>

(***************************************************************************)
(* C32.  The cache is a chain: pageHistory[0] is the Source's answer to a  *)
(* fetch without continuation token, and every later entry is the answer   *)
(* to a fetch with the continuation token stored in the entry before it.   *)
(* (Sequences count from 1: pageHistory[i] of the code is entry i + 1.)    *)
(***************************************************************************)
C32_CacheIsChain ==
    \A i \in 1..Len(m.pageHistory) :
        IF i = 1
        THEN m.pageHistory[i] = Response(loadSecrets(m.awsClient, NoToken))
        ELSE /\ m.pageHistory[i - 1].nextToken # NoToken
             /\ m.pageHistory[i] =
                    Response(loadSecrets(m.awsClient, m.pageHistory[i - 1].nextToken))

(***************************************************************************)
(* C33.  When no list fetch is outstanding and a fetch has succeeded since *)
(* the last Refresh (the cache is not empty), the page displayed is the    *)
(* cache entry at the current index: m.secrets and m.nextToken are the     *)
(* items and token of pageHistory[currentPage], and the grid's items are   *)
(* m.secrets.                                                              *)
(***************************************************************************)
C33_DisplayedIsCachedPage ==
    (status = "running" /\ ListFetches = {} /\ Len(m.pageHistory) > 0) =>
        /\ m.currentPage < Len(m.pageHistory)
        /\ m.secrets = m.pageHistory[m.currentPage + 1].secrets
        /\ m.nextToken = m.pageHistory[m.currentPage + 1].nextToken
        /\ m.grid.secrets = m.secrets

(***************************************************************************)
(* C34.  When the list fetch that a successful client change triggered     *)
(* completes, currentPage is 0 and every entry of pageHistory is a page of *)
(* the new client's listing, so that no page of the previous profile can   *)
(* be shown by a later 'n' or 'b'.                                         *)
(***************************************************************************)
\* the pages of the listing a client reads
PagesOf(client) ==
    {secretPage(SourcePages[client.profile][t].secrets, SourcePages[client.profile][t].nextToken) :
        t \in DOMAIN SourcePages[client.profile]}

C34_ClientChangeStartsCacheAfresh ==
    [][\A e \in ListFetches :
           (e.by = "clientChangedMsg" /\ CanSucceed(e.c) /\ Deliver(e, FetchOk(e.c))) =>
               /\ m'.currentPage = 0
               /\ \A i \in 1..Len(m'.pageHistory) : m'.pageHistory[i] \in PagesOf(e.c.client)]_vars

(***************************************************************************)
(* C35.  In every reachable state the cursor lies inside the grid:         *)
(* 0 <= cursorRow < numRows and 0 <= cursorCol < numCols, so that the cell *)
(* drawn as selected (row = cursorRow, col = cursorCol, col < numCols) is  *)
(* the cell of the secret SelectedSecret returns.                          *)
(***************************************************************************)
C35_CursorInsideGrid ==
    /\ 0 <= m.grid.cursorRow /\ m.grid.cursorRow < m.grid.numRows
    /\ 0 <= m.grid.cursorCol /\ m.grid.cursorCol < m.grid.numCols

(***************************************************************************)
(* C36.  Whenever the detail screen shows a non-empty secretValue, it is   *)
(* the value of the secret SelectedSecret returns (the secret the screen   *)
(* is titled with): a value fetched for one secret is never shown under    *)
(* another.                                                                *)
(***************************************************************************)
C36_ValueBelongsToSelected ==
    (OnDetail /\ m.secretValue # << >>) =>
        /\ SelectedSecret(m.grid) # NoSecret
        /\ m.secretValue = GetSecretValue(m.awsClient, SelectedSecret(m.grid))

(***************************************************************************)
(* C37.  The loading flag reflects the outstanding work: loading is true   *)
(* whenever a list fetch, a secret-value fetch or a client initialisation  *)
(* has been dispatched and has not delivered its message, and at most one  *)
(* list fetch is outstanding at any time.                                  *)
(***************************************************************************)
C37_LoadingReflectsOutstanding ==
    /\ (\E e \in BagToSet(inflight) :
            e.c.cmd \in {"loadSecrets", "loadSecretValue", "initAWSClient"}) => m.loading
    /\ \A e \in ListFetches : CopiesIn(e, inflight) = 1
    /\ Cardinality(ListFetches) <= 1

(***************************************************************************)
(* C38.  The screen pages partition the filtered set: the visible slices   *)
(* of the screen pages 0 .. totalGridPages - 1, concatenated in order, are *)
(* exactly filteredSecrets; every screen page but the last holds exactly   *)
(* numCols * numRows secrets, and the last holds between 1 and that many   *)
(* when filteredSecrets is not empty.                                      *)
(***************************************************************************)
C38_ScreenPagesPartition ==
    LET g        == m.grid
        slice(p) == getVisibleSecrets([g EXCEPT !.gridPageIndex = p])
        last     == g.totalGridPages - 1
        RECURSIVE Upto(_)
        Upto(p)  == IF p < 0 THEN << >> ELSE Upto(p - 1) \o slice(p)
    IN  /\ g.totalGridPages >= 1
        /\ Upto(last) = g.filteredSecrets
        /\ \A p \in 0..(last - 1) : Len(slice(p)) = capacity(g)
        /\ g.filteredSecrets # << >> =>
               1 <= Len(slice(last)) /\ Len(slice(last)) <= capacity(g)
        /\ g.filteredSecrets = << >> => slice(last) = << >>

\* several full screen pages and a last one that is not full
C38_Witness ==
    /\ m.grid.totalGridPages >= 3
    /\ capacity(m.grid) > 1
    /\ Len(m.grid.filteredSecrets) % capacity(m.grid) # 0

(***************************************************************************)
(* C39.  Every dispatched fetch is eventually answered and the UI does not *)
(* stay loading forever: if from some point on the user presses no key     *)
(* (every step is a delivery), then, unless the program has ended, the     *)
(* system reaches and stays in a state with loading false and no command   *)
(* outstanding.                                                            *)
(***************************************************************************)
Settled == ~m.loading /\ inflight = EmptyBag

C39_EventuallySettled ==
    (<>[][Deliveries]_vars) => <>[](status # "running" \/ Settled)

\* settled again after a next page was fetched and a value was loaded on the
\* detail screen
C39_Witness ==
    /\ OnDetail /\ Settled
    /\ m.secretValue # << >>
    /\ Len(m.pageHistory) > 1

====
